---- MODULE Spec2Model ----
(***************************************************************************)
(* FinTrack (src/app.py): four CSV tables (users, expenses, categories,    *)
(* budgets), the credential functions create_user / verify_user and the    *)
(* ExpenseTracker class that works on an in-memory, per-user snapshot of   *)
(* the three ledger tables and rewrites a whole table on every mutation.   *)
(*                                                                         *)
(* A table is [cols, rows]: cols says whether the file has a header line   *)
(* (a file created by the module-level initialisation has none), rows are  *)
(* the text cells.  pandas.read_csv turns the text into values (a cell     *)
(* spelling a missing value becomes NaN), to_csv turns values into text    *)
(* (NaN becomes the empty cell).  Dates are ISO strings in the file and    *)
(* timestamps <<day, time of day>> in memory.                              *)
(***************************************************************************)
EXTENDS Integers, Sequences, FiniteSets, TLC

VARIABLES users, expenses, categories, budgets, tracker, last

vars == <<users, expenses, categories, budgets, tracker, last>>

files == <<users, expenses, categories, budgets>>

----------------------------------------------------------------------------
(* Bounds of the model *)

MaxUsers == 2

MaxExpenses == 3

MaxCategories == 2

MaxBudgets == 2

MaxBulk == 2

----------------------------------------------------------------------------
(* Inputs enumerated by the actions *)

UserNames == {"", "alice", "NA"}

Passwords == {"", "pw1", "pw2"}

Trackers == {"t1", "t2"}

CategoryNames == {"", "Food", "Gym", "NA"}

Descriptions == {"lunch", "x"}

\* the uploaded CSVs with the four required columns whose rows are drawn
\* from the given cells, and one CSV that lacks a column
Uploads(dates, cats, amounts, descriptions) ==
    LET Rows == [date : dates, category : cats,
                 amount : amounts, description : descriptions]
    IN  [cols : {TRUE}, rows : UNION {[1..n -> Rows] : n \in 0..MaxBulk}]
        \cup {[cols |-> FALSE, rows |-> <<>>]}

----------------------------------------------------------------------------
(* pandas values *)

\* float('nan'): the value read_csv gives a missing cell
NaN == "nan"

\* pandas.NaT: what to_datetime(errors='coerce') gives an unparseable date
NaT == <<0, 0>>

\* the spellings read_csv takes for a missing value (those of the input sets)
NaValues == {"", "NA", "nan"}

\* read_csv on one text cell
ReadCell(s) == IF s \in NaValues THEN NaN ELSE s

\* to_csv on one value: na_rep is the empty string
WriteCell(v) == IF v = NaN THEN "" ELSE v

\* the == of a column value with a Python value: NaN equals nothing
PdEq(a, b) == a # NaN /\ b # NaN /\ a = b

\* x in list, for a str x and a list of column values
PdIn(x, S) == \E y \in S : PdEq(y, x)

\* pd.to_datetime on a date text: <<day number, time of day>>
ToDatetime(s) ==
    CASE s = "2024-01-01" -> <<1, 0>>
      [] s = "2024-01-02" -> <<2, 0>>
      [] s = "2024-01-01 15:30" -> <<1, 1>>
      [] s = "2024-01-02 15:30" -> <<2, 1>>
      [] OTHER -> NaT

\* strftime('%Y-%m-%d'): the time of day is dropped
Strftime(ts) == IF ts[1] = 1 THEN "2024-01-01" ELSE "2024-01-02"

\* Python's truth value of a str
Truthy(s) == s # ""

\* hashlib.sha256(password).hexdigest(): deterministic and injective
hash_password(password) == <<"sha256", password>>

RECURSIVE SumAmount(_)
\* Series.sum() over the amount column of the given rows
SumAmount(rows) ==
    IF rows = <<>> THEN 0 ELSE Head(rows).amount + SumAmount(Tail(rows))

\* the set of values of a sequence
Range(s) == {s[i] : i \in DOMAIN s}

----------------------------------------------------------------------------
(* The tables *)

\* pd.DataFrame().to_csv(file): a file with no header line
FreshFile == [cols |-> FALSE, rows |-> <<>>]

\* a file that existed before the program started: header line, no rows
HeaderFile == [cols |-> TRUE, rows |-> <<>>]

\* read_csv raises (no columns to parse) on a file without a header
CanRead(file) == file.cols

ReadUsers(file) ==
    [i \in DOMAIN file.rows |->
        [username |-> ReadCell(file.rows[i].username),
         password |-> file.rows[i].password]]

WriteUsers(rows) ==
    [cols |-> TRUE,
     rows |-> [i \in DOMAIN rows |->
        [username |-> WriteCell(rows[i].username),
         password |-> rows[i].password]]]

NoResult == [op |-> "none", t |-> "none", arg |-> <<>>, ret |-> "none", msg |-> <<>>]

\* The module-level loop creates each file that does not exist: every file
\* is either the empty one the loop wrote or one that was already there.
Init ==
    /\ users \in {FreshFile, HeaderFile}
    /\ expenses \in {FreshFile, HeaderFile}
    /\ categories \in {FreshFile, HeaderFile}
    /\ budgets \in {FreshFile, HeaderFile}
    /\ tracker = [t \in Trackers |-> [alive |-> FALSE]]
    /\ last = NoResult

----------------------------------------------------------------------------
(* Credential functions *)

\* username in users['username'].values
UserExists(rows, username) ==
    \E i \in DOMAIN rows : PdEq(rows[i].username, username)

\* the return value of create_user
CreateUserRet(username, password) ==
    IF ~Truthy(username) \/ ~Truthy(password) THEN "False"
    ELSE IF ~CanRead(users) THEN "raise"
    ELSE IF UserExists(ReadUsers(users), username) THEN "False"
    ELSE "True"

create_user(username, password) ==
    LET ret == CreateUserRet(username, password) IN
    /\ ret = "True" => Len(users.rows) < MaxUsers
    /\ users' = IF ret = "True"
                THEN WriteUsers(Append(ReadUsers(users),
                        [username |-> username,
                         password |-> hash_password(password)]))
                ELSE users
    /\ last' = [op |-> "create_user", t |-> "none",
                arg |-> <<username, password>>, ret |-> ret, msg |-> <<>>]
    /\ UNCHANGED <<expenses, categories, budgets, tracker>>

\* the return value of verify_user
VerifyUserRet(file, username, password) ==
    IF ~CanRead(file) THEN "raise"
    ELSE LET user == SelectSeq(ReadUsers(file),
                        LAMBDA r : PdEq(r.username, username)) IN
         IF user # <<>> /\ user[1].password = hash_password(password)
         THEN "True" ELSE "False"

verify_user(username, password) ==
    /\ last' = [op |-> "verify_user", t |-> "none",
                arg |-> <<username, password>>,
                ret |-> VerifyUserRet(users, username, password), msg |-> <<>>]
    /\ UNCHANGED <<users, expenses, categories, budgets, tracker>>

----------------------------------------------------------------------------
(* ExpenseTracker *)

DefaultCats == {"Food", "Transport", "Housing", "Other"}

ReadExpenses(file) ==
    [i \in DOMAIN file.rows |->
        [username |-> ReadCell(file.rows[i].username),
         date |-> file.rows[i].date,
         category |-> ReadCell(file.rows[i].category),
         amount |-> file.rows[i].amount,
         description |-> ReadCell(file.rows[i].description)]]

WriteExpenses(rows) ==
    [cols |-> TRUE,
     rows |-> [i \in DOMAIN rows |->
        [username |-> WriteCell(rows[i].username),
         date |-> rows[i].date,
         category |-> WriteCell(rows[i].category),
         amount |-> rows[i].amount,
         description |-> WriteCell(rows[i].description)]]]

ReadCategories(file) ==
    [i \in DOMAIN file.rows |->
        [username |-> ReadCell(file.rows[i].username),
         category |-> ReadCell(file.rows[i].category)]]

WriteCategories(rows) ==
    [cols |-> TRUE,
     rows |-> [i \in DOMAIN rows |->
        [username |-> WriteCell(rows[i].username),
         category |-> WriteCell(rows[i].category)]]]

ReadBudgets(file) ==
    [i \in DOMAIN file.rows |->
        [username |-> ReadCell(file.rows[i].username),
         category |-> ReadCell(file.rows[i].category),
         amount |-> file.rows[i].amount]]

WriteBudgets(rows) ==
    [cols |-> TRUE,
     rows |-> [i \in DOMAIN rows |->
        [username |-> WriteCell(rows[i].username),
         category |-> WriteCell(rows[i].category),
         amount |-> rows[i].amount]]]

\* df[df['username'] == username]
OfUser(rows, username) ==
    SelectSeq(rows, LAMBDA r : PdEq(r.username, username))

\* df[df['category'] == category]
OfCategory(rows, category) ==
    SelectSeq(rows, LAMBDA r : PdEq(r.category, category))

\* the mask on the category alone: the rows of every user for it are dropped
NotOfCategory(rows, username, category) ==
    SelectSeq(rows, LAMBDA r : ~PdEq(r.category, category))

\* df[~((df['username'] == username) & (df['category'] == category))]
NotOfPair(rows, username, category) ==
    SelectSeq(rows, LAMBDA r :
        ~(PdEq(r.username, username) /\ PdEq(r.category, category)))

\* self.expenses['date'] = pd.to_datetime(self.expenses['date'])
WithTimestamps(rows) ==
    [i \in DOMAIN rows |-> [rows[i] EXCEPT !.date = ToDatetime(rows[i].date)]]

\* the three files can be parsed: otherwise load_data raises
CanLoad(ef, cf, bf) == CanRead(ef) /\ CanRead(cf) /\ CanRead(bf)

\* the tracker object after load_data on the given files
load_data(username, ef, cf, bf) ==
    [alive |-> TRUE,
     username |-> username,
     expenses |-> WithTimestamps(OfUser(ReadExpenses(ef), username)),
     categories |-> OfUser(ReadCategories(cf), username),
     budgets |-> OfUser(ReadBudgets(bf), username)]

\* ExpenseTracker(username)
NewTracker(t, username) ==
    /\ tracker' = IF CanLoad(expenses, categories, budgets)
                  THEN [tracker EXCEPT ![t] =
                            load_data(username, expenses, categories, budgets)]
                  ELSE tracker
    /\ last' = [op |-> "init", t |-> t, arg |-> username,
                ret |-> IF CanLoad(expenses, categories, budgets)
                        THEN "True" ELSE "raise",
                msg |-> <<>>]
    /\ UNCHANGED files

\* the members of get_available_categories(): the list holds the column's
\* values as read, a NaN among them
get_available_categories(self) ==
    DefaultCats \cup {self.categories[i].category : i \in DOMAIN self.categories}

\* the comparison with >= in place of >: a total that meets the limit is refused
OverBudgetAtLimit(current_total, amount, budget) == current_total + amount >= budget

\* current_total + amount > budget
OverBudget(current_total, amount, budget) == current_total + amount > budget

\* the message of add_expense when it returns False, "" when it goes on to add
AddExpenseError(self, expense_data) ==
    LET category == expense_data.category
        budget_row == OfCategory(self.budgets, category)
        current_total == SumAmount(OfCategory(self.expenses, category))
    IN  IF ~PdIn(category, get_available_categories(self))
        THEN "Category does not exist."
        ELSE IF budget_row # <<>>
                /\ OverBudget(current_total, expense_data.amount,
                              budget_row[1].amount)
        THEN "Adding this expense would exceed your budget for this category."
        ELSE ""

\* the locals budget and current_total of add_expense, when it has a budget
\* row to check against
BudgetCheck(self, expense_data) ==
    LET budget_row == OfCategory(self.budgets, expense_data.category) IN
    IF PdIn(expense_data.category, get_available_categories(self))
       /\ budget_row # <<>>
    THEN <<budget_row[1].amount,
           SumAmount(OfCategory(self.expenses, expense_data.category))>>
    ELSE <<>>

\* the row add_expense appends: the date as an ISO string
ExpenseRow(expense_data) ==
    [expense_data EXCEPT !.date = Strftime(expense_data.date)]

\* add_expense writing the tracker's own snapshot plus the new row, the
\* file not being read again
AddExpenseStepFromSnapshot(self, ef, expense_data) ==
    LET err == AddExpenseError(self, expense_data) IN
    IF err # ""
    THEN [file |-> ef, self |-> self, ret |-> "False", msg |-> err]
    ELSE LET written ==
                WriteExpenses(Append(
                    [i \in DOMAIN self.expenses |-> ExpenseRow(self.expenses[i])],
                    ExpenseRow(expense_data)))
         IN  [file |-> written,
              self |-> load_data(self.username, written, categories, budgets),
              ret |-> "True", msg |-> "Expense added successfully."]

\* add_expense as a function of the tracker and the expenses file:
\* the file and the tracker after the call, and what it returns
AddExpenseStep(self, ef, expense_data) ==
    LET err == AddExpenseError(self, expense_data) IN
    IF err # ""
    THEN [file |-> ef, self |-> self, ret |-> "False", msg |-> err]
    ELSE LET written ==
                WriteExpenses(Append(ReadExpenses(ef), ExpenseRow(expense_data)))
         IN  [file |-> written,
              self |-> load_data(self.username, written, categories, budgets),
              ret |-> "True", msg |-> "Expense added successfully."]

\* the dict the Add form passes: the session's user, a date from the date input
ExpenseData(self, day, category, amount, description) ==
    [username |-> self.username, date |-> <<day, 0>>, category |-> category,
     amount |-> amount, description |-> description]

add_expense(t, expense_data) ==
    LET r == AddExpenseStep(tracker[t], expenses, expense_data) IN
    /\ tracker[t].alive
    /\ r.ret = "True" => Len(expenses.rows) < MaxExpenses
    /\ expenses' = r.file
    /\ tracker' = [tracker EXCEPT ![t] = r.self]
    /\ last' = [op |-> "add_expense", t |-> t, arg |-> expense_data,
                ret |-> r.ret, msg |-> r.msg,
                seen |-> BudgetCheck(tracker[t], expense_data)]
    /\ UNCHANGED <<users, categories, budgets>>

\* df['username'] = self.username; df['date'] = pd.to_datetime(df['date'])
BulkFrame(self, df) ==
    [i \in DOMAIN df.rows |->
        [username |-> self.username,
         date |-> ToDatetime(df.rows[i].date),
         category |-> ReadCell(df.rows[i].category),
         amount |-> df.rows[i].amount,
         description |-> ReadCell(df.rows[i].description)]]

\* the date check made on the first row only
BulkRejectFirstRow(self, df) ==
    IF ~df.cols
    THEN "CSV must contain date, category, amount, description columns."
    ELSE IF df.rows # <<>> /\ BulkFrame(self, df)[1].date = NaT
    THEN "Invalid date format in CSV. Use YYYY-MM-DD."
    ELSE ""

\* the message of add_bulk_expenses when it returns before the loop, or ""
BulkReject(self, df) ==
    IF ~df.cols
    THEN "CSV must contain date, category, amount, description columns."
    ELSE IF \E i \in DOMAIN df.rows : BulkFrame(self, df)[i].date = NaT
    THEN "Invalid date format in CSV. Use YYYY-MM-DD."
    ELSE ""

RECURSIVE BulkLoopStale(_, _, _, _)
\* the loop with every row checked against the snapshot the import started
\* with: add_expense without its reload
BulkLoopStale(self, ef, rows, errors) ==
    IF rows = <<>>
    THEN [file |-> ef,
          self |-> load_data(self.username, ef, categories, budgets),
          errors |-> errors]
    ELSE LET r == AddExpenseStep(self, ef, Head(rows)) IN
         BulkLoopStale(self, r.file, Tail(rows),
                  IF r.ret = "True" THEN errors
                  ELSE Append(errors, <<Head(rows).description, r.msg>>))

RECURSIVE BulkLoopAbort(_, _, _, _)
\* the loop leaving at the first row that fails
BulkLoopAbort(self, ef, rows, errors) ==
    IF rows = <<>>
    THEN [file |-> ef, self |-> self, errors |-> errors]
    ELSE LET r == AddExpenseStep(self, ef, Head(rows)) IN
         IF r.ret = "True"
         THEN BulkLoopAbort(r.self, r.file, Tail(rows), errors)
         ELSE [file |-> ef, self |-> self,
               errors |-> Append(errors, <<Head(rows).description, r.msg>>)]

RECURSIVE BulkLoop(_, _, _, _)
\* for _, row in df.iterrows(): add_expense(row.to_dict()), collecting
\* the failures; the file, the tracker and the errors after the last row
BulkLoop(self, ef, rows, errors) ==
    IF rows = <<>>
    THEN [file |-> ef, self |-> self, errors |-> errors]
    ELSE LET r == AddExpenseStep(self, ef, Head(rows)) IN
         BulkLoop(r.self, r.file, Tail(rows),
                  IF r.ret = "True" THEN errors
                  ELSE Append(errors, <<Head(rows).description, r.msg>>))

add_bulk_expenses(t, df) ==
    LET self == tracker[t]
        reject == BulkReject(self, df)
        r == BulkLoop(self, expenses, BulkFrame(self, df), <<>>)
    IN
    /\ self.alive
    /\ Len(expenses.rows) + Len(df.rows) <= MaxExpenses
    /\ expenses' = IF reject # "" THEN expenses ELSE r.file
    /\ tracker' = IF reject # "" THEN tracker ELSE [tracker EXCEPT ![t] = r.self]
    /\ last' = [op |-> "add_bulk_expenses", t |-> t, arg |-> df,
                ret |-> IF reject = "" /\ r.errors = <<>> THEN "True" ELSE "False",
                msg |-> IF reject # "" THEN <<reject>> ELSE r.errors]
    /\ UNCHANGED <<users, categories, budgets>>

\* whether add_category refuses the name
CategoryRefused(self, category) ==
    \/ ~Truthy(category)
    \/ category \in DefaultCats
    \/ PdIn(category, {self.categories[i].category : i \in DOMAIN self.categories})

add_category(t, category) ==
    LET self == tracker[t]
        written == WriteCategories(Append(ReadCategories(categories),
                        [username |-> self.username, category |-> category]))
    IN
    /\ self.alive
    /\ ~CategoryRefused(self, category) => Len(categories.rows) < MaxCategories
    /\ categories' = IF CategoryRefused(self, category) THEN categories ELSE written
    /\ tracker' = IF CategoryRefused(self, category) THEN tracker
                  ELSE [tracker EXCEPT ![t] =
                            load_data(self.username, expenses, written, budgets)]
    /\ last' = [op |-> "add_category", t |-> t, arg |-> category,
                ret |-> IF CategoryRefused(self, category) THEN "False" ELSE "True",
                msg |-> <<>>]
    /\ UNCHANGED <<users, expenses, budgets>>

set_budget(t, category, amount) ==
    LET self == tracker[t]
        written == WriteBudgets(Append(
                        NotOfPair(ReadBudgets(budgets), self.username, category),
                        [username |-> self.username, category |-> category,
                         amount |-> amount]))
    IN
    /\ self.alive
    /\ Len(written.rows) <= MaxBudgets
    /\ budgets' = written
    /\ tracker' = [tracker EXCEPT ![t] =
                        load_data(self.username, expenses, categories, written)]
    /\ last' = [op |-> "set_budget", t |-> t, arg |-> <<category, amount>>,
                ret |-> "None", msg |-> <<>>]
    /\ UNCHANGED <<users, expenses, categories>>

remove_budget(t, category) ==
    LET self == tracker[t]
        written == WriteBudgets(
                        NotOfPair(ReadBudgets(budgets), self.username, category))
    IN
    /\ self.alive
    /\ budgets' = written
    /\ tracker' = [tracker EXCEPT ![t] =
                        load_data(self.username, expenses, categories, written)]
    /\ last' = [op |-> "remove_budget", t |-> t, arg |-> category,
                ret |-> "None", msg |-> <<>>]
    /\ UNCHANGED <<users, expenses, categories>>

\* a <= b on timestamps
TsLeq(a, b) == a[1] < b[1] \/ (a[1] = b[1] /\ a[2] <= b[2])

\* an optional argument: None, or a value
None == [given |-> FALSE]

Some(v) == [given |-> TRUE, v |-> v]

\* the mask with the end date excluded
FilterMaskEndExclusive(r, start_date, end_date, cats, min_amount, max_amount) ==
    /\ TsLeq(<<start_date, 0>>, r.date)
    /\ TsLeq(r.date, <<end_date, 0>>) /\ r.date # <<end_date, 0>>
    /\ cats # {} => PdIn(r.category, cats)
    /\ min_amount.given => r.amount >= min_amount.v
    /\ max_amount.given => r.amount <= max_amount.v

\* the mask of get_filtered_expenses on one row; categories is the set of
\* the list's members, the empty list being falsy like None
FilterMask(r, start_date, end_date, cats, min_amount, max_amount) ==
    /\ TsLeq(<<start_date, 0>>, r.date)
    /\ TsLeq(r.date, <<end_date, 0>>)
    /\ cats # {} => PdIn(r.category, cats)
    /\ min_amount.given => r.amount >= min_amount.v
    /\ max_amount.given => r.amount <= max_amount.v

get_filtered_expenses(t, start_date, end_date, cats, min_amount, max_amount) ==
    LET self == tracker[t] IN
    /\ self.alive
    /\ last' = [op |-> "get_filtered_expenses", t |-> t,
                arg |-> <<start_date, end_date, cats, min_amount, max_amount>>,
                ret |-> "frame",
                msg |-> IF self.expenses = <<>> THEN <<>>
                        ELSE SelectSeq(self.expenses, LAMBDA r :
                                FilterMask(r, start_date, end_date, cats,
                                           min_amount, max_amount))]
    /\ UNCHANGED <<users, expenses, categories, budgets, tracker>>

----------------------------------------------------------------------------
(* Specifications *)

\* the credential functions alone
NextAuth ==
    \E u \in UserNames, p \in Passwords :
        \/ create_user(u, p)
        \/ verify_user(u, p)

SpecAuth == Init /\ [][NextAuth]_vars

\* two sessions of the same user, each with its own tracker object
Next ==
    \E t \in Trackers :
        \/ NewTracker(t, "alice")
        \/ \E c \in {"Food", "Gym"} :
                add_expense(t, ExpenseData(tracker[t], 1, c, 1, "lunch"))
        \/ \E df \in Uploads({"2024-01-01"}, {"Food"}, {1}, {"x"}) :
                add_bulk_expenses(t, df)
        \/ set_budget(t, "Food", 1)
        \/ remove_budget(t, "Food")

Spec == Init /\ [][Next]_vars

\* one tracker, used for adding single expenses under categories and budgets
NextAdd ==
    \/ NewTracker("t1", "alice")
    \/ \E d \in {1, 2}, c \in {"Food", "Gym", "NA"} :
            add_expense("t1", ExpenseData(tracker["t1"], d, c, 1, "lunch"))
    \/ \E c \in {"Gym", "NA"} : add_category("t1", c)
    \/ \E a \in {1, 2} : set_budget("t1", "Food", a)
    \/ remove_budget("t1", "Food")

SpecAdd == Init /\ [][NextAdd]_vars

\* one tracker, used for adding expenses one by one and in bulk under a budget
NextLedger ==
    \/ NewTracker("t1", "alice")
    \/ \E d \in {1, 2} :
            add_expense("t1", ExpenseData(tracker["t1"], d, "Food", 1, "lunch"))
    \/ \E df \in Uploads({"2024-01-01"}, {"Food"}, {-1, 1}, {"x"}) :
            add_bulk_expenses("t1", df)
    \/ \E a \in {1, 2} : set_budget("t1", "Food", a)
    \/ remove_budget("t1", "Food")

SpecLedger == Init /\ [][NextLedger]_vars

\* one tracker, used for bulk imports
NextBulk ==
    \/ NewTracker("t1", "alice")
    \/ \E df \in Uploads({"2024-01-02 15:30"}, {"Food", "NoSuchCat"},
                         {2}, Descriptions) :
            add_bulk_expenses("t1", df)
    \/ set_budget("t1", "Food", 2)

SpecBulk == Init /\ [][NextBulk]_vars

\* one tracker, every operation that can be rejected
NextSeq ==
    \/ NewTracker("t1", "alice")
    \/ \E c \in {"Food", "NoSuchCat"}, a \in {1, 2} :
            add_expense("t1", ExpenseData(tracker["t1"], 1, c, a, "lunch"))
    \/ \E df \in Uploads({"2024-01-01", "yesterday"}, {"Food"}, {1}, {"x"}) :
            add_bulk_expenses("t1", df)
    \/ \E c \in CategoryNames : add_category("t1", c)
    \/ set_budget("t1", "Food", 1)
    \/ \E u \in {"", "alice"}, p \in {"", "pw1"} : create_user(u, p)

SpecSeq == Init /\ [][NextSeq]_vars

\* the budgets table under its two operations
NextBudget ==
    \/ \E u \in {"alice", "bob"} : NewTracker("t1", u)
    \/ \E c \in {"Food", "NA"}, a \in {1, 2} : set_budget("t1", c, a)
    \/ \E c \in {"Food", "NA"} : remove_budget("t1", c)

SpecBudget == Init /\ [][NextBudget]_vars

\* the categories table under add_category
NextCategory ==
    \/ \E u \in {"alice", "bob"} : NewTracker("t1", u)
    \/ \E c \in CategoryNames : add_category("t1", c)

SpecCategory == Init /\ [][NextCategory]_vars

\* a ledger and the queries on it
NextFilter ==
    \/ NewTracker("t1", "alice")
    \/ \E e \in {<<1, "Food", 1>>, <<2, "Food", 2>>,
                  <<1, "Transport", 2>>, <<2, "Transport", 1>>} :
            add_expense("t1", ExpenseData(tracker["t1"], e[1], e[2], e[3], "lunch"))
    \/ \E start_date \in {1, 2}, end_date \in {1, 2},
          cats \in {{}, {"Food"}, {"Food", "Gym"}},
          min_amount \in {None, Some(0), Some(2)},
          max_amount \in {None, Some(1)} :
            get_filtered_expenses("t1", start_date, end_date, cats,
                                  min_amount, max_amount)

SpecFilter == Init /\ [][NextFilter]_vars

\* the user logged in in each of two sessions
SessionUser(t) == IF t = "t1" THEN "alice" ELSE "bob"

\* two users, each in a session of their own, on the same three tables;
\* the descriptions are spelled as a missing value, so that a rewrite of
\* the ledger by one user meets such cells in the rows of the other
NextIsolation ==
    \/ \E t \in Trackers : NewTracker(t, SessionUser(t))
    \/ \E t \in Trackers :
            add_expense(t, ExpenseData(tracker[t], 1, "Food", 1, "NA"))
    \/ add_expense("t1", ExpenseData(tracker["t1"], 1, "Gym", 1, "NA"))
    \/ \E df \in Uploads({"2024-01-01"}, {"Food"}, {1}, {"NA"}) :
            add_bulk_expenses("t1", df)
    \/ \E t \in Trackers : add_category(t, "Gym")
    \/ \E t \in Trackers : set_budget(t, "Food", 1)
    \/ \E t \in Trackers : remove_budget(t, "Food")

SpecIsolation == Init /\ [][NextIsolation]_vars

----------------------------------------------------------------------------
(* Properties *)

\* the rows of a table, as text, that belong to a user
RowsOf(file, username) ==
    SelectSeq(file.rows, LAMBDA r : r.username = username)

\* C7: create_user returns False for an empty username or password and for a
\* username the table already holds; with a new non-empty username and a
\* non-empty password it returns True and verify_user then accepts the same
\* credentials; it never changes or removes a row that was there; verify_user
\* does not accept a password other than the one stored for the user.  This
\* is to hold from every state of the table, the freshly created file included.
C7_Credentials ==
    [][/\ last'.op = "create_user" =>
            LET u == last'.arg[1]
                p == last'.arg[2]
                known == RowsOf(users, u) # <<>>
            IN  /\ (u = "" \/ p = "" \/ known) => last'.ret = "False"
                /\ (u # "" /\ p # "" /\ ~known) =>
                        /\ last'.ret = "True"
                        /\ VerifyUserRet(users', u, p) = "True"
                /\ \A i \in DOMAIN users.rows :
                        /\ i \in DOMAIN users'.rows
                        /\ users'.rows[i] = users.rows[i]
       /\ last'.op = "verify_user" =>
            LET u == last'.arg[1]
                p == last'.arg[2]
            IN  (\A i \in DOMAIN users.rows :
                    users.rows[i].username = u
                        => users.rows[i].password # hash_password(p))
                => last'.ret # "True"
      ]_vars

\* the categories a user has in the categories table, as read_csv reads them
StoredCategories(file, username) ==
    {ReadCell(r.category) : r \in Range(RowsOf(file, username))} \ {NaN}

\* the budget rows of a user for a category
BudgetRows(file, username, category) ==
    SelectSeq(file.rows,
              LAMBDA r : r.username = username /\ r.category = category)

\* the sum of all amounts a user has in the ledger in a category, whatever the date
PersistedTotal(file, username, category) ==
    SumAmount(SelectSeq(file.rows,
              LAMBDA r : r.username = username /\ r.category = category))

C2_TotalStaysWithinBudget ==
    [][\A i \in DOMAIN budgets.rows :
        LET b == budgets.rows[i] IN
        (/\ budgets' = budgets
         /\ PersistedTotal(expenses, b.username, b.category) <= b.amount)
        => PersistedTotal(expenses', b.username, b.category) <= b.amount
    ]_vars

\* an import of two rows of 1 under a budget: the first is committed and
\* reaches the limit, the second is refused because the first is counted
C2_Witness ==
    /\ last.op = "add_bulk_expenses"
    /\ last.arg.cols
    /\ Len(last.arg.rows) = 2
    /\ \A k \in 1..2 : last.arg.rows[k].amount = 1
    /\ Len(last.msg) = 1
    /\ last.msg[1][2] = "Adding this expense would exceed your budget for this category."
    /\ BudgetRows(budgets, "alice", "Food") # <<>>
    /\ PersistedTotal(expenses, "alice", "Food")
         = BudgetRows(budgets, "alice", "Food")[1].amount
    /\ expenses.rows # <<>>
    /\ expenses.rows[Len(expenses.rows)].description = "x"

\* C9: every row of the persisted ledger has a non-negative amount, whether
\* add_expense was called for it directly or by add_bulk_expenses.
C9_AmountsNonNegative ==
    \A i \in DOMAIN expenses.rows : expenses.rows[i].amount >= 0

RECURSIVE RowByRow(_, _, _, _)
\* An import taken row by row in input order against the persisted tables:
\* a row passes at its turn when its category is available and, if the
\* category has a budget, the persisted total plus the rows of this import
\* kept so far plus its amount does not exceed the limit.  Gives the rows
\* kept and the descriptions of the rows that failed.
RowByRow(rows, username, kept, failed) ==
    IF rows = <<>> THEN [kept |-> kept, failed |-> failed]
    ELSE LET r == Head(rows)
             known == r.category \in
                        DefaultCats \cup StoredCategories(categories, username)
             limit == BudgetRows(budgets, username, r.category)
             total == PersistedTotal(expenses, username, r.category)
                        + SumAmount(SelectSeq(kept,
                                LAMBDA k : k.category = r.category))
             pass == known /\ (limit = <<>> \/ total + r.amount <= limit[1].amount)
         IN  RowByRow(Tail(rows), username,
                      IF pass THEN Append(kept, r) ELSE kept,
                      IF pass THEN failed ELSE Append(failed, r.description))

\* C3: an import with the required columns and valid dates is processed row
\* by row in input order and is not atomic: every row that passes at its
\* turn is appended to the ledger, whatever happens to the rows before and
\* after it; the call returns failure exactly when some row failed, its
\* message names the description of every failing row, and it returns
\* success only when every row was persisted.
C3_BulkRowByRow ==
    [][(/\ last'.op = "add_bulk_expenses"
        /\ last'.arg.cols
        /\ \A k \in DOMAIN last'.arg.rows :
                ToDatetime(last'.arg.rows[k].date) # NaT)
       => LET u == tracker[last'.t].username
              o == RowByRow(last'.arg.rows, u, <<>>, <<>>)
              n == Len(expenses.rows)
          IN  /\ last'.ret = "False" <=> o.failed # <<>>
              /\ last'.ret = "True" => Len(o.kept) = Len(last'.arg.rows)
              /\ [k \in DOMAIN last'.msg |-> last'.msg[k][1]] = o.failed
              /\ Len(expenses'.rows) = n + Len(o.kept)
              /\ SubSeq(expenses'.rows, 1, n) = expenses.rows
              /\ \A k \in DOMAIN o.kept :
                    /\ expenses'.rows[n + k].username = u
                    /\ expenses'.rows[n + k].category = o.kept[k].category
                    /\ expenses'.rows[n + k].amount = o.kept[k].amount
                    /\ expenses'.rows[n + k].description = o.kept[k].description
    ]_vars

\* an import of two rows: the first fails and is named in the message, the
\* second is persisted all the same
C3_Witness ==
    /\ last.op = "add_bulk_expenses"
    /\ last.arg.cols
    /\ Len(last.arg.rows) = 2
    /\ last.arg.rows[1].description # last.arg.rows[2].description
    /\ last.ret = "False"
    /\ Len(last.msg) = 1
    /\ last.msg[1][1] = last.arg.rows[1].description
    /\ expenses.rows # <<>>
    /\ expenses.rows[Len(expenses.rows)].description = last.arg.rows[2].description

\* C4: a rejected operation leaves the four tables as they were: an
\* add_expense that returns failure, an add_category or create_user that
\* returns False, and an add_bulk_expenses whose CSV lacks a required column
\* or has a date that does not parse (no row of it is inserted, the rows
\* before the bad one included).
C4_RejectedLeavesTables ==
    [][(\/ last'.op \in {"add_expense", "add_category", "create_user"}
            /\ last'.ret = "False"
        \/ last'.op = "add_bulk_expenses"
            /\ (\/ ~last'.arg.cols
                \/ \E k \in DOMAIN last'.arg.rows :
                        ToDatetime(last'.arg.rows[k].date) = NaT))
       => /\ files' = files
          /\ last'.ret = "False"
    ]_vars

\* an import refused for the date of its second row, the first row being valid
C4_Witness ==
    /\ last.op = "add_bulk_expenses"
    /\ last.arg.cols
    /\ Len(last.arg.rows) = 2
    /\ ToDatetime(last.arg.rows[1].date) # NaT
    /\ ToDatetime(last.arg.rows[2].date) = NaT
    /\ last.ret = "False"
    /\ last.msg = <<"Invalid date format in CSV. Use YYYY-MM-DD.">>

\* the rows of a table other than those of a (username, category) pair
OtherPairs(file, username, category) ==
    SelectSeq(file.rows,
              LAMBDA r : ~(r.username = username /\ r.category = category))

\* C5: the budgets table holds at most one row for a (username, category)
\* pair; set_budget replaces the pair's row, if any, by one row with the
\* new amount and touches no other row; remove_budget removes the pair's
\* row and changes nothing when there is none.
C5_BudgetUpsert ==
    [][/\ last'.op = "set_budget" =>
            LET u == tracker[last'.t].username
                c == last'.arg[1]
            IN  budgets'.rows =
                    Append(OtherPairs(budgets, u, c),
                           [username |-> u, category |-> c,
                            amount |-> last'.arg[2]])
       /\ last'.op = "remove_budget" =>
            LET u == tracker[last'.t].username
                c == last'.arg
            IN  /\ budgets'.rows = OtherPairs(budgets, u, c)
                /\ BudgetRows(budgets, u, c) = <<>> => budgets' = budgets
       /\ \A i, j \in DOMAIN budgets'.rows :
            (/\ budgets'.rows[i].username = budgets'.rows[j].username
             /\ budgets'.rows[i].category = budgets'.rows[j].category)
            => i = j
    ]_vars

\* C6: add_category(name) returns False when name is empty, a default or
\* already stored for the user; otherwise it returns True and appends one
\* row, so that the same add repeated returns False; no stored category of
\* a user is a default name or is stored twice for that user.
C6_AddCategory ==
    [][last'.op = "add_category" =>
        LET u == tracker[last'.t].username
            name == last'.arg
            stored == {r.category : r \in Range(RowsOf(categories, u))}
            refused == name = "" \/ name \in DefaultCats \/ name \in stored
        IN  /\ last'.ret = "False" <=> refused
            /\ last'.ret = "False" => categories' = categories
            /\ last'.ret = "True" =>
                    categories'.rows =
                        Append(categories.rows,
                               [username |-> u, category |-> name])
            /\ \A i, j \in DOMAIN categories'.rows :
                    /\ categories'.rows[i].category \notin DefaultCats
                    /\ (/\ categories'.rows[i].username = categories'.rows[j].username
                        /\ categories'.rows[i].category = categories'.rows[j].category)
                       => i = j
    ]_vars

\* the day of an ISO date of the ledger
DayOf(date) == IF date = "2024-01-01" THEN 1 ELSE 2

\* C8: get_filtered_expenses(start, end, categories, min_amount, max_amount)
\* returns exactly the user's expenses, in ledger order, with
\* start <= date <= end (both ends included), in the category set when one
\* is given, with amount >= min_amount and <= max_amount for each bound
\* given; so a restriction never adds a row, and an empty ledger gives an
\* empty result.
C8_FilterExact ==
    last.op = "get_filtered_expenses" =>
        LET start_date == last.arg[1]
            end_date == last.arg[2]
            cats == last.arg[3]
            min_amount == last.arg[4]
            max_amount == last.arg[5]
            mine == RowsOf(expenses, tracker[last.t].username)
            want == SelectSeq(mine, LAMBDA r :
                        /\ start_date <= DayOf(r.date)
                        /\ DayOf(r.date) <= end_date
                        /\ cats # {} => r.category \in cats
                        /\ min_amount.given => r.amount >= min_amount.v
                        /\ max_amount.given => r.amount <= max_amount.v)
            inRange == SelectSeq(mine, LAMBDA r :
                        start_date <= DayOf(r.date) /\ DayOf(r.date) <= end_date)
        IN  /\ Len(last.msg) = Len(want)
            /\ \A k \in DOMAIN want :
                    /\ last.msg[k].date = <<DayOf(want[k].date), 0>>
                    /\ last.msg[k].category = want[k].category
                    /\ last.msg[k].amount = want[k].amount
                    /\ last.msg[k].username = want[k].username
            /\ Len(last.msg) <= Len(inRange)
            /\ mine = <<>> => last.msg = <<>>

\* a query for a single day with a category set and an upper bound that
\* returns some rows of the ledger and leaves others out
C8_Witness ==
    /\ last.op = "get_filtered_expenses"
    /\ last.arg[1] = last.arg[2]
    /\ last.arg[3] # {}
    /\ last.arg[5].given
    /\ last.msg # <<>>
    /\ Len(last.msg) < Len(expenses.rows)
    /\ \E i \in DOMAIN expenses.rows : DayOf(expenses.rows[i].date) # last.arg[1]

\* C10: add_expense decides on the tracker's in-memory snapshot (taken at
\* construction or at its last reload) and, when it accepts, appends to the
\* file as it is read at that moment and reloads; so of two trackers of
\* one user loaded before either adds, each can pass the budget check on
\* its stale total, and the persisted total ends above the limit.
C10_StaleCheckFreshWrite ==
    [][last'.op = "add_expense" =>
        LET self == tracker[last'.t]
            e == last'.arg
            known == e.category \in DefaultCats
                        \cup ({r.category : r \in Range(self.categories)} \ {NaN})
            limit == SelectSeq(self.budgets, LAMBDA r : r.category = e.category)
            total == SumAmount(SelectSeq(self.expenses,
                                LAMBDA r : r.category = e.category))
            over == limit # <<>> /\ total + e.amount > limit[1].amount
        IN  /\ last'.ret = "False" <=> (~known \/ over)
            /\ last'.ret = "False" => expenses' = expenses /\ tracker' = tracker
            /\ last'.ret = "True" =>
                    /\ Len(expenses'.rows) = Len(expenses.rows) + 1
                    /\ SubSeq(expenses'.rows, 1, Len(expenses.rows)) = expenses.rows
                    /\ expenses'.rows[Len(expenses'.rows)].amount = e.amount
                    /\ expenses'.rows[Len(expenses'.rows)].category = e.category
                    /\ Len(tracker'[last'.t].expenses)
                         = Len(RowsOf(expenses', self.username))
    ]_vars

\* the second of two adds of 1 under a budget of 1: it was checked against
\* a total of 0 while the ledger already held 1, it succeeded, and the
\* persisted total is 2
C10_Witness ==
    /\ last.op = "add_expense"
    /\ last.ret = "True"
    /\ last.seen = <<1, 0>>
    /\ BudgetRows(budgets, "alice", "Food") # <<>>
    /\ BudgetRows(budgets, "alice", "Food")[1].amount = 1
    /\ PersistedTotal(expenses, "alice", "Food") = 2
    /\ Len(expenses.rows) = 2
    /\ \A t \in Trackers : tracker[t].alive /\ tracker[t].budgets # <<>>

\* the rows of a table, as read_csv reads them, that are not the user's
OthersRows(rows, username) ==
    SelectSeq(rows, LAMBDA r : ~PdEq(r.username, username))

\* a table with the rows of every other user taken out
OwnTable(file, username) ==
    [cols |-> file.cols,
     rows |-> SelectSeq(file.rows,
                        LAMBDA r : PdEq(ReadCell(r.username), username))]

\* the tracker a user would have if the three tables held that user's rows only
Alone(username) ==
    load_data(username, OwnTable(expenses, username),
              OwnTable(categories, username), OwnTable(budgets, username))

====
